---- MODULE Spec2Model ----
(***************************************************************************)
(* perf/text_runner.py: TextRunner, the benchmark runner.                  *)
(*                                                                         *)
(* Every operating-system process that runs the program is an instance of  *)
(* the same code: process 0 is the program as the user launched it, the    *)
(* other process ids are the worker children created by                    *)
(* _bench_from_subprocess.  A process is at position pc[p] of _main.       *)
(*                                                                         *)
(* Durations are integers, in ticks of half a nanosecond, so that the      *)
(* rounding of a sample to 10^-9 s changes a value and the default         *)
(* --max-time of one second still fits the integers of the model checker.  *)
(***************************************************************************)
EXTENDS Integers, Sequences, FiniteSets, TLC

\* ------------------------------------------------------------- bounds
MaxProcesses == 2      \* --processes is drawn from 1..MaxProcesses
MaxSamples == 2        \* --samples is drawn from 1..MaxSamples
MaxWarmups == 1        \* --warmups is drawn from 0..MaxWarmups

\* ------------------------------------------------- program constants
TicksPerNs == 2                  \* the unit of the model: 1 tick = 0.5 ns
DefaultProcesses == 25           \* TextRunner(processes=25)
DefaultSamples == 3              \* TextRunner(samples=3)
DefaultWarmups == 1              \* TextRunner(warmups=1)
DefaultLoops == 0                \* TextRunner(loops=0)
DefaultMinTime == 200000000      \* --min-time default=0.1 (seconds)
DefaultMaxTime == 2000000000     \* --max-time default=1.0 (seconds)
NCandidates == 10                \* for index in range(0, 10)

Procs == 0 .. MaxProcesses

VARIABLES
    PY3,                     \* perf._PY3
    has_sched_setaffinity,   \* hasattr(os, 'sched_setaffinity')
    psutil_has_cpu_affinity, \* psutil is there and has Process.cpu_affinity
    isolated_cpus,           \* what perf._get_isolated_cpus() returns
    sample_func,             \* the timed operation given to bench_sample_func
    prepare_subprocess_args, \* TextRunner.prepare_subprocess_args is set
    pc,                      \* position of every process in _main
    parent,                  \* the process that created the process
    argv,                    \* command line of the process
    args,                    \* self.args of the process
    index,                   \* _calibrate_sample_func: the loop variable
    calls,                   \* every call sample_func(loops) -> dt, in order
    bench,                   \* the Benchmark of _main
    samples,                 \* _worker: the local list of samples
    process,                 \* _spawn_workers: the loop variable
    proc,                    \* _bench_from_subprocess: the Popen object
    launched,                \* the children the process created, in order
    pending,                 \* the exception caught by the bare except
    killed,                  \* a SIGKILL was sent to the process
    reaped,                  \* the parent has collected the exit status
    stdout,                  \* what the process wrote to sys.stdout
    stderr,                  \* what the process wrote to sys.stderr
    json_file,               \* content of the file args.json_file
    pinned,                  \* the CPUs the process pinned itself to
    status,                  \* exit status of the process
    exc,                     \* the exception that ended _main
    returned                 \* _main returned its Benchmark

env == <<PY3, has_sched_setaffinity, psutil_has_cpu_affinity, isolated_cpus,
         sample_func, prepare_subprocess_args>>
ctl == <<pc, parent, argv, args>>
cal == <<index, calls>>
wrk == <<bench, samples>>
spw == <<process, proc, launched, pending, killed, reaped>>
io == <<stdout, stderr, json_file>>
fin == <<pinned, status, exc, returned>>
vars == <<env, ctl, cal, wrk, spw, io, fin>>

\* --------------------------------------------------------- helpers
Pow10(n) == IF n = 0 THEN 1
            ELSE IF n = 1 THEN 10
            ELSE IF n = 2 THEN 100
            ELSE IF n = 3 THEN 1000
            ELSE IF n = 4 THEN 10000
            ELSE IF n = 5 THEN 100000
            ELSE IF n = 6 THEN 1000000
            ELSE IF n = 7 THEN 10000000
            ELSE IF n = 8 THEN 100000000
            ELSE 1000000000

Max(a, b) == IF a >= b THEN a ELSE b

\* one line of text written by print(), or one serialized Benchmark
NoBench == [loops |-> 0, warmups |-> 0, runs |-> << >>, metadata |-> << >>]
Text(t) == [kind |-> "text", text |-> t, bench |-> NoBench]
Json(b) == [kind |-> "json", text |-> "", bench |-> b]
NoExc == [type |-> "", cmd |-> "", code |-> 0]
Exc(t) == [type |-> t, cmd |-> "", code |-> 0]

\* ----------------------------------------------------- command line
Opt(o, v) == [opt |-> o, val |-> v]

HasOpt(av, o) == \E i \in 1 .. Len(av) : av[i].opt = o

\* argparse: the last occurrence of an option wins, its default otherwise
LastVal(av, o, d) ==
    IF HasOpt(av, o)
    THEN av[CHOOSE i \in 1 .. Len(av) :
               /\ av[i].opt = o
               /\ \A j \in (i + 1) .. Len(av) : av[j].opt # o].val
    ELSE d

\* argparse action='count': -v, -vv, ... add up
RECURSIVE CountVal(_, _)
CountVal(av, o) ==
    IF av = << >> THEN 0
    ELSE (IF Head(av).opt = o THEN Head(av).val ELSE 0) + CountVal(Tail(av), o)

NoArgs == [processes |-> 0, samples |-> 0, warmups |-> 0, loops |-> 0,
           verbose |-> 0, json |-> FALSE, json_file |-> FALSE,
           min_time |-> 0, max_time |-> 0, raw |-> FALSE,
           metadata |-> FALSE, affinity |-> << >>]

\* self.argparser.parse_args(): the options of TextRunner.__init__
ParseArgs(av) ==
    [processes |-> LastVal(av, "--processes", DefaultProcesses),
     samples   |-> LastVal(av, "--samples", DefaultSamples),
     warmups   |-> LastVal(av, "--warmups", DefaultWarmups),
     loops     |-> LastVal(av, "--loops", DefaultLoops),
     verbose   |-> CountVal(av, "-v"),
     json      |-> HasOpt(av, "--json"),
     json_file |-> HasOpt(av, "--json-file"),
     min_time  |-> LastVal(av, "--min-time", DefaultMinTime),
     max_time  |-> LastVal(av, "--max-time", DefaultMaxTime),
     raw       |-> HasOpt(av, "--raw"),
     metadata  |-> HasOpt(av, "--metadata"),
     affinity  |-> LastVal(av, "--affinity", << >>)]

\* self._stream(): where the human-readable text of the process goes
Stream(a) == IF a.json THEN "stderr" ELSE "stdout"

\* One write of an action: item goes to dest, which is "stdout", "stderr"
\* or "stream" for print(..., file=self._stream()).
W(dest, item) == [dest |-> dest, item |-> item]

\* the items that the writes ws of a process with args a put on stream d
RECURSIVE Written(_, _, _)
Written(a, ws, d) ==
    IF ws = << >> THEN << >>
    ELSE LET w == Head(ws)
             to == IF w.dest = "stream" THEN Stream(a) ELSE w.dest
         IN  (IF to = d THEN <<w.item>> ELSE << >>) \o Written(a, Tail(ws), d)

\* process p, whose args are a, performs the writes ws in order
Emit(p, a, ws) ==
    /\ stdout' = [stdout EXCEPT ![p] = @ \o Written(a, ws, "stdout")]
    /\ stderr' = [stderr EXCEPT ![p] = @ \o Written(a, ws, "stderr")]

\* the lines ls when cond holds, nothing otherwise
When(cond, ls) == IF cond THEN ls ELSE << >>

\* ------------------------------------------------------- CPU lists
Min(S) == CHOOSE x \in S : \A y \in S : x <= y

\* perf._format_cpu_list(): the CPUs in increasing order
RECURSIVE FormatCpuList(_)
FormatCpuList(cpus) ==
    IF cpus = {} THEN << >>
    ELSE <<Min(cpus)>> \o FormatCpuList(cpus \ {Min(cpus)})

\* perf._parse_cpu_list(): the set of the CPUs the list names
ParseCpuList(list) == {list[i] : i \in 1 .. Len(list)}

\* -------------------------------------------------- timed operation
\* The values sample_func(loops) can return in process p.  A "linear"
\* operation takes k ticks per loop, d ticks more at each further call the
\* process makes, and perhaps cold ticks more at the first call of the
\* process; an "any" operation returns whatever it likes.
DtValues == {4, 9, 50}

SampleFuncResults(p, loops) ==
    IF sample_func.kind = "linear"
    THEN LET dt == loops * sample_func.k + Len(calls[p]) * sample_func.d
         IN  IF calls[p] = << >> THEN {dt, dt + sample_func.cold} ELSE {dt}
    ELSE DtValues

\* the exit statuses of a process whose timed operation raised: an
\* exception that nothing catches (1), or SystemExit(2)
RaiseStatus == {1, 2}

\* round(sample, 9): to the nearest nanosecond, ties to the even one
Round9(dt) ==
    LET q == dt \div TicksPerNs
        r == dt % TicksPerNs
    IN  IF 2 * r < TicksPerNs THEN q * TicksPerNs
        ELSE IF 2 * r > TicksPerNs THEN (q + 1) * TicksPerNs
        ELSE IF q % 2 = 0 THEN q * TicksPerNs
        ELSE (q + 1) * TicksPerNs

\* ------------------------------------------------------ calibration
\* min_dt = self.args.min_time * 0.90; dt is a whole number of ticks, so
\* dt >= 0.9 * min_time exactly when dt >= min_time - floor(min_time / 10)
MinDt(min_time) == min_time - (min_time \div 10)

\* the same with the two tests in the other order
CalibrateIteration_MinFirst(idx, dt, min_time, max_time) ==
    IF dt >= MinDt(min_time)
    THEN [break |-> TRUE, index |-> idx, loops |-> Pow10(idx)]
    ELSE IF dt >= max_time
    THEN [break |-> TRUE, index |-> Max(idx - 1, 0),
          loops |-> Pow10(Max(idx - 1, 0))]
    ELSE [break |-> idx + 1 >= NCandidates, index |-> idx,
          loops |-> Pow10(idx)]

\* the same without the step back to the previous candidate
CalibrateIteration_NoStepBack(idx, dt, min_time, max_time) ==
    IF dt >= max_time \/ dt >= MinDt(min_time)
    THEN [break |-> TRUE, index |-> idx, loops |-> Pow10(idx)]
    ELSE [break |-> idx + 1 >= NCandidates, index |-> idx,
          loops |-> Pow10(idx)]

\* the same with one candidate more
CalibrateIteration_Eleven(idx, dt, min_time, max_time) ==
    IF dt >= max_time
    THEN [break |-> TRUE, index |-> Max(idx - 1, 0),
          loops |-> Pow10(Max(idx - 1, 0))]
    ELSE IF dt >= MinDt(min_time)
    THEN [break |-> TRUE, index |-> idx, loops |-> Pow10(idx)]
    ELSE [break |-> idx >= NCandidates, index |-> idx,
          loops |-> Pow10(idx)]

\* One iteration of the loop of _calibrate_sample_func, after the call
\* dt = sample_func(10 ** index): whether the loop ends, and index and
\* loops as the iteration leaves them.
CalibrateIteration(idx, dt, min_time, max_time) ==
    IF dt >= max_time
    THEN [break |-> TRUE, index |-> Max(idx - 1, 0),
          loops |-> Pow10(Max(idx - 1, 0))]
    ELSE IF dt >= MinDt(min_time)
    THEN [break |-> TRUE, index |-> idx, loops |-> Pow10(idx)]
    ELSE [break |-> idx + 1 >= NCandidates, index |-> idx,
          loops |-> Pow10(idx)]

\* ------------------------------------------------------- Benchmark
\* Benchmark.add_run(): one more run, after the ones already there
AddRun(b, run) == [b EXCEPT !.runs = Append(@, run)]

\* Benchmark.json_load(): the text is one serialized Benchmark, or it is
\* not and the load fails (ok is FALSE)
JsonLoad(text) ==
    IF Len(text) = 1 /\ text[1].kind = "json"
    THEN [ok |-> TRUE, bench |-> text[1].bench]
    ELSE [ok |-> FALSE, bench |-> NoBench]

\* Benchmark._get_worker_samples(): the one run of a worker's Benchmark
GetWorkerSamples(run_bench) ==
    IF Len(run_bench.runs) = 1
    THEN [ok |-> TRUE, samples |-> run_bench.runs[1]]
    ELSE [ok |-> FALSE, samples |-> << >>]

RECURSIVE Flatten(_)
Flatten(runs) == IF runs = << >> THEN << >> ELSE Head(runs) \o Flatten(Tail(runs))

\* Benchmark._get_raw_samples(): every sample of every run, warmups too
GetRawSamples(b) == Flatten(b.runs)

\* Benchmark.get_samples(): the samples of every run without its warmups.
\* (The division of every sample by the loop count is left out: it scales
\* the median and the standard deviation alike.)
GetSamples(b) ==
    Flatten([i \in 1 .. Len(b.runs) |->
                SubSeq(b.runs[i], b.warmups + 1, Len(b.runs[i]))])

SeqMin(s) == Min({s[i] : i \in 1 .. Len(s)})

RECURSIVE SeqSum(_)
SeqSum(s) == IF s = << >> THEN 0 ELSE Head(s) + SeqSum(Tail(s))

\* twice statistics.median(s): the number of samples below x is at most
\* half of them, and so is the number of samples above x
Median2(s) ==
    LET n == Len(s)
        below(x) == Cardinality({i \in 1 .. n : s[i] < x})
        above(x) == Cardinality({i \in 1 .. n : s[i] > x})
        lo == CHOOSE x \in {s[i] : i \in 1 .. n} :
                  below(x) <= (n - 1) \div 2 /\ above(x) <= n \div 2
        hi == CHOOSE x \in {s[i] : i \in 1 .. n} :
                  below(x) <= n \div 2 /\ above(x) <= (n - 1) \div 2
    IN  lo + hi

\* n * (n - 1) times the variance of statistics.stdev(s)
Variance(s) ==
    LET n == Len(s)
        d == [i \in 1 .. n |-> s[i] - SeqMin(s)]
    IN  n * SeqSum([i \in 1 .. n |-> d[i] * d[i]]) - SeqSum(d) * SeqSum(d)

RECURSIVE Gcd(_, _)
Gcd(a, b) == IF b = 0 THEN a ELSE Gcd(b, a % b)

RECURSIVE SeqGcd(_)
SeqGcd(s) == IF s = << >> THEN 0 ELSE Gcd(Head(s), SeqGcd(Tail(s)))

\* the samples in the largest unit that divides them all: stdev / median
\* is the same in every unit, and the squares stay small
InUnits(s) == [i \in 1 .. Len(s) |-> s[i] \div SeqGcd(s)]

\* stdev / median > 0.10 and > 0.20, without the square root:
\* var > (c * median)^2 with median = Median2 / 2
RatioOver10(s) ==
    LET t == InUnits(s) IN
    400 * Variance(t) > Len(t) * (Len(t) - 1) * Median2(t) * Median2(t)
\* the error level tested against the warning threshold
RatioOver20_Ten(s) == RatioOver10(s)

RatioOver20(s) ==
    LET t == InUnits(s) IN
    100 * Variance(t) > Len(t) * (Len(t) - 1) * Median2(t) * Median2(t)

\* the warning threshold mistaken for the error threshold
ShortestWarn_Micro == 1000 * TicksPerNs

ShortestWarn == 1000 * 1000 * TicksPerNs      \* shortest < 1e-3 (seconds)
ShortestError == 1000 * TicksPerNs            \* shortest < 1e-6 (seconds)

\* _warn_if_bench_unstable() of a Benchmark with a run: what it prints
WarnIfBenchUnstable(b, verbose) ==
    LET s == GetSamples(b)
        shortest == SeqMin(GetRawSamples(b))
    IN  (IF Median2(s) # 0 /\ Len(s) > 1
         THEN IF RatioOver10(s)
              THEN <<W("stream", Text(IF RatioOver20(s)
                                      THEN "ERROR: the benchmark is very unstable"
                                      ELSE "WARNING: the benchmark seems unstable")),
                     W("stream", Text("Try to rerun the benchmark with more runs")),
                     W("stream", Text(""))>>
              ELSE When(verbose > 1,
                        <<W("stream", Text("Standard deviation / median"))>>)
         ELSE << >>)
        \o
        (IF shortest < ShortestWarn
         THEN <<W("stdout", Text(IF shortest < ShortestError
                                 THEN "ERROR: the benchmark may be very unstable"
                                 ELSE "WARNING: the benchmark may be unstable")),
                W("stream", Text("Try to rerun the benchmark with more loops")),
                W("stream", Text(""))>>
         ELSE When(verbose > 1,
                   <<W("stream", Text("Shortest raw sample")),
                     W("stream", Text(""))>>))

\* _display_metadata(): a header, then one line per key
DisplayMetadata(metadata) ==
    When(DOMAIN metadata # {},
         <<W("stream", Text("Metadata:"))>> \o
         [i \in 1 .. Cardinality(DOMAIN metadata) |-> W("stream", Text("- key: value"))])

\* a report that stops after an error of the stability checks
DisplayBenchmark_Abort(b, verbose, check_unstable, metadata) ==
    LET warned == When(check_unstable, WarnIfBenchUnstable(b, verbose))
        failed == \E i \in 1 .. Len(warned) :
                      warned[i].item \in
                          {Text("ERROR: the benchmark is very unstable"),
                           Text("ERROR: the benchmark may be very unstable")}
    IN  When(metadata, DisplayMetadata(b.metadata) \o <<W("stream", Text(""))>>)
        \o warned
        \o When(~failed, <<W("stream", Text("Median +- std dev"))>>)

\* _display_benchmark(): what it prints (runs is never asked for)
DisplayBenchmark(b, verbose, check_unstable, metadata) ==
    When(metadata, DisplayMetadata(b.metadata) \o <<W("stream", Text(""))>>)
    \o When(check_unstable, WarnIfBenchUnstable(b, verbose))
    \o <<W("stream", Text("Median +- std dev"))>>

\* _json_dump(): the file when --json-file is given, else stdout with --json
JsonDumpWrites(b, a) ==
    IF a.json_file THEN << >>
    ELSE When(a.json, <<W("stdout", Json(b))>>)

JsonDumpFile(b, a, file) == IF a.json_file THEN <<Json(b)>> ELSE file

\* TextRunner._display_result(): the report, then the structured result
DisplayResult(b, a, check_unstable) ==
    DisplayBenchmark(b, a.verbose, check_unstable, a.metadata)
    \o JsonDumpWrites(b, a)

\* ------------------------------------------------------------ inputs
\* the command line of the program: (sys.executable, sys.argv[0]), then
\* the options
CommandLine(o) ==
    <<Opt("python", 0),
      Opt("--processes", o.processes), Opt("--samples", o.samples),
      Opt("--warmups", o.warmups), Opt("--loops", o.loops),
      Opt("--min-time", o.min_time), Opt("--max-time", o.max_time)>>
    \o When(o.verbose > 0, <<Opt("-v", o.verbose)>>)
    \o When(o.json, <<Opt("--json", 1)>>)
    \o When(o.json_file, <<Opt("--json-file", 1)>>)
    \o When(o.raw, <<Opt("--raw", 1)>>)
    \o When(o.metadata, <<Opt("--metadata", 1)>>)
    \o When(o.affinity # << >>, <<Opt("--affinity", o.affinity)>>)

\* the state of every process before the program starts with command cmd
Start(cmd) ==
    /\ pc = [p \in Procs |-> IF p = 0 THEN "main" ELSE "none"]
    /\ parent = [p \in Procs |-> 0]
    /\ argv = [p \in Procs |-> IF p = 0 THEN cmd ELSE << >>]
    /\ args = [p \in Procs |-> NoArgs]
    /\ index = [p \in Procs |-> 0]
    /\ calls = [p \in Procs |-> << >>]
    /\ bench = [p \in Procs |-> NoBench]
    /\ samples = [p \in Procs |-> << >>]
    /\ process = [p \in Procs |-> 0]
    /\ proc = [p \in Procs |-> 0]
    /\ launched = [p \in Procs |-> << >>]
    /\ pending = [p \in Procs |-> ""]
    /\ killed = [p \in Procs |-> FALSE]
    /\ reaped = [p \in Procs |-> FALSE]
    /\ stdout = [p \in Procs |-> << >>]
    /\ stderr = [p \in Procs |-> << >>]
    /\ json_file = [p \in Procs |-> << >>]
    /\ pinned = [p \in Procs |-> {}]
    /\ status = [p \in Procs |-> 0]
    /\ exc = [p \in Procs |-> NoExc]
    /\ returned = [p \in Procs |-> FALSE]

\* -------------------------------------------------- ends of a process
\* the process ends with exit status code, after the writes ws
Exit(p, a, code, e, ws) ==
    /\ pc' = [pc EXCEPT ![p] = "exited"]
    /\ status' = [status EXCEPT ![p] = code]
    /\ exc' = [exc EXCEPT ![p] = e]
    /\ Emit(p, a, ws)

\* an exception that nothing catches: the traceback, exit status 1
Uncaught(p, a, e, ws) ==
    Exit(p, a, 1, e, ws \o <<W("stderr", Text("Traceback"))>>)

\* ------------------------------------------------------------- _main
\* start_time = perf.monotonic_clock(); self.parse_args()
Main(p) ==
    /\ pc[p] = "main"
    /\ args' = [args EXCEPT ![p] = ParseArgs(argv[p])]
    /\ pc' = [pc EXCEPT ![p] = "cpu_affinity"]
    /\ UNCHANGED <<env, parent, argv, cal, wrk, spw, io, fin>>

\* _main calibrating whatever --loops says
AfterAffinity_Always(a) == "calibrate"

\* where _main goes on after self._cpu_affinity()
AfterAffinity(a) == IF a.loops = 0 THEN "calibrate" ELSE "bench"

\* self._cpu_affinity()
CpuAffinity(p) ==
    LET a == args[p]
        available == has_sched_setaffinity \/ psutil_has_cpu_affinity
    IN
    /\ pc[p] = "cpu_affinity"
    /\ IF a.affinity = << >>
       THEN IF isolated_cpus = {}
            THEN \* no isolated CPUs: return
                 /\ pc' = [pc EXCEPT ![p] = AfterAffinity(a)]
                 /\ UNCHANGED <<args, io, fin>>
            ELSE IF ~available
            THEN \* unable to pin CPUs: warn and return
                 /\ pc' = [pc EXCEPT ![p] = AfterAffinity(a)]
                 /\ Emit(p, a, <<W("stream", Text("WARNING: unable to pin worker processes")),
                                 W("stream", Text("Use Python 3.3 or newer"))>>)
                 /\ UNCHANGED <<args, json_file, fin>>
            ELSE /\ pc' = [pc EXCEPT ![p] = AfterAffinity(a)]
                 /\ Emit(p, a, When(a.verbose > 0,
                                    <<W("stream", Text("Pin process to isolated CPUs"))>>))
                 /\ args' = [args EXCEPT ![p].affinity = FormatCpuList(isolated_cpus)]
                 /\ pinned' = [pinned EXCEPT ![p] = isolated_cpus]
                 /\ UNCHANGED <<json_file, status, exc, returned>>
       ELSE LET shown == When(a.verbose > 0,
                              <<W("stream", Text("Pin process to CPUs"))>>)
            IN  IF available
                THEN /\ pc' = [pc EXCEPT ![p] = AfterAffinity(a)]
                     /\ Emit(p, a, shown)
                     /\ pinned' = [pinned EXCEPT ![p] = ParseCpuList(a.affinity)]
                     /\ UNCHANGED <<args, json_file, status, exc, returned>>
                ELSE \* print(..., file=stream): stream is not bound here
                     /\ Uncaught(p, a, Exc("UnboundLocalError"),
                                 shown \o <<W("stderr", Text("ERROR: CPU affinity not available."))>>)
                     /\ UNCHANGED <<args, json_file, pinned, returned>>
    /\ UNCHANGED <<env, parent, argv, cal, wrk, spw>>

\* self.args.loops = self._calibrate_sample_func(sample_func): one
\* iteration of its loop, and its end when the loop ends
CalibrateSampleFunc(p) ==
    LET a == args[p] IN
    /\ pc[p] = "calibrate"
    /\ \E dt \in SampleFuncResults(p, Pow10(index[p])) :
         LET it == CalibrateIteration(index[p], dt, a.min_time, a.max_time)
             trace == When(a.verbose > 1, <<W("stream", Text("calibration: loops: dt"))>>)
         IN  /\ calls' = [calls EXCEPT ![p] =
                             Append(@, [by |-> "calibrate", loops |-> Pow10(index[p]),
                                        dt |-> dt])]
             /\ IF it.break
                THEN /\ index' = [index EXCEPT ![p] = it.index]
                     /\ args' = [args EXCEPT ![p].loops = it.loops]
                     /\ pc' = [pc EXCEPT ![p] = "bench"]
                     /\ Emit(p, a, trace \o When(a.verbose > 1,
                                       <<W("stream", Text("calibration: use"))>>))
                ELSE /\ index' = [index EXCEPT ![p] = it.index + 1]
                     /\ Emit(p, a, trace)
                     /\ UNCHANGED <<args, pc>>
    /\ UNCHANGED <<env, parent, argv, wrk, spw, json_file, fin>>

\* where the try block of _main goes
Dispatch(a) == IF a.raw THEN "worker" ELSE "spawn"

\* bench = perf.Benchmark(...), with the metadata of the runner (none)
MainBenchmark(p) ==
    LET a == args[p] IN
    /\ pc[p] = "bench"
    /\ bench' = [bench EXCEPT ![p] = [loops |-> a.loops, warmups |-> a.warmups,
                                      runs |-> << >>, metadata |-> << >>]]
    /\ pc' = [pc EXCEPT ![p] = IF ~a.raw \/ a.metadata THEN "metadata"
                               ELSE Dispatch(a)]
    /\ UNCHANGED <<env, parent, argv, args, cal, samples, spw, io, fin>>

\* perf_metadata.collect_metadata(bench.metadata)
CollectMetadata(p) ==
    /\ pc[p] = "metadata"
    /\ bench' = [bench EXCEPT ![p].metadata = ("platform" :> "linux") @@ @]
    /\ pc' = [pc EXCEPT ![p] = Dispatch(args[p])]
    /\ UNCHANGED <<env, parent, argv, args, cal, samples, spw, io, fin>>

\* ----------------------------------------------------------- _worker
\* _range without its first loop
Range_NoWarmups(a) == [i \in 1 .. a.samples |-> <<FALSE, i>>]

\* self._range(): (is_warmup, index) of the warmups, then of the samples
Range(a) ==
    [i \in 1 .. (a.warmups + a.samples) |->
        IF i <= a.warmups THEN <<TRUE, i>> ELSE <<FALSE, i - a.warmups>>]

\* one iteration of the loop of _worker
WorkerSample(p) ==
    LET a == args[p]
        n == Len(samples[p])
    IN
    /\ pc[p] = "worker"
    /\ n < Len(Range(a))
    /\ \E dt \in SampleFuncResults(p, bench[p].loops) :
         /\ calls' = [calls EXCEPT ![p] =
                         Append(@, [by |-> "worker", loops |-> bench[p].loops,
                                    dt |-> dt])]
         /\ samples' = [samples EXCEPT ![p] = Append(@, Round9(dt))]
    /\ Emit(p, a, When(a.verbose > 0,
                       <<W("stream", Text(IF Range(a)[n + 1][1] THEN "Warmup"
                                          ELSE "Raw sample"))>>))
    /\ UNCHANGED <<env, ctl, index, bench, spw, json_file, fin>>

\* the end of _worker: bench.add_run(samples), self._display_result(bench,
\* check_unstable=False), return bench
WorkerAddRun(p) ==
    LET a == args[p]
        b == AddRun(bench[p], samples[p])
    IN
    /\ pc[p] = "worker"
    /\ Len(samples[p]) = Len(Range(a))
    /\ bench' = [bench EXCEPT ![p] = b]
    /\ json_file' = [json_file EXCEPT ![p] = JsonDumpFile(b, a, @)]
    /\ returned' = [returned EXCEPT ![p] = TRUE]
    /\ Exit(p, a, 0, NoExc, DisplayResult(b, a, FALSE))
    /\ UNCHANGED <<env, parent, argv, args, cal, samples, spw, pinned>>

\* sample_func(loops) raises instead of returning: nothing in _main
\* catches it
TimedOpRaises(p) ==
    /\ \/ pc[p] = "calibrate"
       \/ pc[p] = "worker" /\ Len(samples[p]) < Len(Range(args[p]))
    /\ \E c \in RaiseStatus :
         IF c = 1 THEN Uncaught(p, args[p], Exc("Exception"), << >>)
         ELSE Exit(p, args[p], c, [type |-> "SystemExit", cmd |-> "", code |-> c], << >>)
    /\ UNCHANGED <<env, parent, argv, args, cal, wrk, spw, json_file, pinned, returned>>

\* except KeyboardInterrupt: print("Interrupted: exit"); sys.exit(1)
Interrupted(p) ==
    Exit(p, args[p], 1, [type |-> "SystemExit", cmd |-> "", code |-> 1],
         <<W("stderr", Text("Interrupted: exit"))>>)

\* KeyboardInterrupt while the process pins its CPUs, calibrates, collects
\* metadata or collects samples
Interrupt(p) ==
    /\ pc[p] \in {"cpu_affinity", "calibrate", "metadata", "worker"}
    /\ IF pc[p] = "worker"
       THEN Interrupted(p)
       ELSE Uncaught(p, args[p], Exc("KeyboardInterrupt"), << >>)
    /\ UNCHANGED <<env, parent, argv, args, cal, wrk, spw, json_file, pinned, returned>>

\* ---------------------------------------------------- _spawn_workers
\* a command line that leaves the CPU list out
SpawnWorkerArgs_NoAffinity(a) ==
    <<Opt("python", 0),
      Opt("--raw", 1), Opt("--json", 1),
      Opt("--samples", a.samples),
      Opt("--warmups", a.warmups),
      Opt("--loops", a.loops)>>
    \o When(a.verbose > 0, <<Opt("-v", a.verbose)>>)
    \o When(prepare_subprocess_args, <<Opt("stmt", 0)>>)

\* a command line that leaves --raw out
SpawnWorkerArgs_NoRaw(a) ==
    <<Opt("python", 0),
      Opt("--json", 1),
      Opt("--samples", a.samples),
      Opt("--warmups", a.warmups),
      Opt("--loops", a.loops)>>
    \o When(a.verbose > 0, <<Opt("-v", a.verbose)>>)
    \o When(a.affinity # << >>, <<Opt("--affinity", a.affinity)>>)
    \o When(prepare_subprocess_args, <<Opt("stmt", 0)>>)

\* _spawn_worker(): the command line of a worker
SpawnWorkerArgs(a) ==
    <<Opt("python", 0),
      Opt("--raw", 1), Opt("--json", 1),
      Opt("--samples", a.samples),
      Opt("--warmups", a.warmups),
      Opt("--loops", a.loops)>>
    \o When(a.verbose > 0, <<Opt("-v", a.verbose)>>)
    \o When(a.affinity # << >>, <<Opt("--affinity", a.affinity)>>)
    \o When(prepare_subprocess_args, <<Opt("stmt", 0)>>)

\* a loop that stops one process short
NProcess_OneLess(a) == a.processes - 1

\* nprocess = self.args.processes
NProcess(a) == a.processes

\* the process id of the next child
FreePid == Min({c \in Procs : pc[c] = "none"})

\* an iteration that does not wait for the child it has created
SpawnWorker_NoWait(p) ==
    LET a == args[p] IN
    /\ pc[p] = "spawn"
    /\ process[p] < a.processes
    /\ \E c \in Procs : pc[c] = "none"
    /\ LET c == Min({x \in Procs : pc[x] = "none"}) IN
         /\ argv' = [argv EXCEPT ![c] = SpawnWorkerArgs(a)]
         /\ pc' = [pc EXCEPT ![c] = "main"]
         /\ parent' = [parent EXCEPT ![c] = p]
         /\ proc' = [proc EXCEPT ![p] = c]
         /\ launched' = [launched EXCEPT ![p] = Append(@, c)]
         /\ process' = [process EXCEPT ![p] = @ + 1]
    /\ UNCHANGED <<env, args, cal, wrk, pending, killed, reaped, io, fin>>

\* one iteration of the loop of _spawn_workers, up to subprocess.Popen()
SpawnWorker(p) ==
    LET a == args[p] IN
    /\ pc[p] = "spawn"
    /\ process[p] < NProcess(a)
    /\ \E c \in Procs : pc[c] = "none"
    /\ LET c == FreePid IN
         /\ argv' = [argv EXCEPT ![c] = SpawnWorkerArgs(a)]
         /\ pc' = [pc EXCEPT ![c] = "main", ![p] = "communicate"]
         /\ parent' = [parent EXCEPT ![c] = p]
         /\ proc' = [proc EXCEPT ![p] = c]
         /\ launched' = [launched EXCEPT ![p] = Append(@, c)]
    /\ UNCHANGED <<env, args, cal, wrk, process, pending, killed, reaped, io, fin>>

\* an error that reports a fixed exit code
SpawnError_Status1(c) == [type |-> "RuntimeError", cmd |-> argv[c][1].opt, code |-> 1]

\* RuntimeError("%s failed with exit code %s" % (args[0], proc.returncode))
SpawnError(c) == [type |-> "RuntimeError", cmd |-> argv[c][1].opt, code |-> status[c]]

\* an iteration that also dumps the aggregate as it stands
Progress_Dump(a, b) ==
    <<W("stream", Text(IF a.verbose > 1 THEN "Run" ELSE "."))>>
    \o JsonDumpWrites(b, a)

\* what an iteration of _spawn_workers prints after bench.add_run()
Progress(a, b) == <<W("stream", Text(IF a.verbose > 1 THEN "Run" ELSE "."))>>

\* proc.communicate() returns: the rest of _bench_from_subprocess and of
\* the iteration of _spawn_workers
Communicate(p) ==
    LET a == args[p]
        c == proc[p]
        run_bench == JsonLoad(stdout[c])
        run == GetWorkerSamples(run_bench.bench)
    IN
    /\ pc[p] = "communicate"
    /\ pc[c] = "exited"
    /\ reaped' = [reaped EXCEPT ![c] = TRUE]
    /\ IF status[c] # 0
       THEN /\ Uncaught(p, a, SpawnError(c),
                        [i \in 1 .. Len(stdout[c]) |-> W("stdout", stdout[c][i])]
                        \o [i \in 1 .. Len(stderr[c]) |-> W("stderr", stderr[c][i])])
            /\ UNCHANGED <<bench, process, proc>>
       ELSE IF ~run_bench.ok \/ ~run.ok
       THEN /\ Uncaught(p, a, Exc("ValueError"), << >>)
            /\ UNCHANGED <<bench, process, proc>>
       ELSE /\ bench' = [bench EXCEPT ![p] = AddRun(@, run.samples)]
            /\ Emit(p, a, Progress(a, AddRun(bench[p], run.samples)))
            /\ process' = [process EXCEPT ![p] = @ + 1]
            /\ proc' = [proc EXCEPT ![p] = 0]
            /\ pc' = [pc EXCEPT ![p] = "spawn"]
            /\ UNCHANGED <<status, exc>>
    /\ UNCHANGED <<env, parent, argv, args, cal, samples, launched, pending, killed,
                   json_file, pinned, returned>>

\* the wall-clock durations of a run, in seconds
Durations == {30, 59, 60, 90}

\* a text that counts minutes only above a minute
FormatDuration_Above(d) ==
    IF d > 60
    THEN [text |-> "min sec", mins |-> d \div 60, secs |-> d % 60]
    ELSE [text |-> "sec", mins |-> 0, secs |-> d]

\* mins, secs = divmod(duration, 60): '%.0f min %.0f sec' % (mins, secs)
\* if mins, else '%.1f sec' % secs
FormatDuration(d) ==
    LET mins == d \div 60
        secs == d % 60
    IN  IF mins # 0
        THEN [text |-> "min sec", mins |-> mins, secs |-> secs]
        ELSE [text |-> "sec", mins |-> 0, secs |-> secs]

\* the end of _spawn_workers, after the loop
SpawnWorkersDone(p) ==
    LET a == args[p] IN
    /\ pc[p] = "spawn"
    /\ process[p] = NProcess(a)
    /\ \E d \in Durations :
         LET b == [bench[p] EXCEPT
                      !.metadata = ("duration" :> FormatDuration(d)) @@ @]
             newline == When(a.verbose <= 1, <<W("stream", Text(""))>>)
         IN  /\ bench' = [bench EXCEPT ![p] = b]
             /\ IF Len(b.runs) = 0
                THEN /\ Uncaught(p, a, Exc("ValueError"), newline)
                     /\ UNCHANGED <<json_file, returned>>
                ELSE /\ Exit(p, a, 0, NoExc, newline \o DisplayResult(b, a, TRUE))
                     /\ json_file' = [json_file EXCEPT ![p] = JsonDumpFile(b, a, @)]
                     /\ returned' = [returned EXCEPT ![p] = TRUE]
    /\ UNCHANGED <<env, parent, argv, args, cal, samples, spw, pinned>>

\* an exception inside proc.communicate(): the bare except is entered,
\* on Python 3 after Popen.__exit__
CommunicateRaises(p) ==
    /\ pc[p] = "communicate"
    /\ \E e \in {"KeyboardInterrupt", "OSError"} :
         pending' = [pending EXCEPT ![p] = e]
    /\ pc' = [pc EXCEPT ![p] = IF PY3 THEN "with_exit" ELSE "kill"]
    /\ UNCHANGED <<env, parent, argv, args, cal, wrk, process, proc, launched,
                   killed, reaped, io, fin>>

\* with proc: Popen.__exit__ waits for the child; on KeyboardInterrupt it
\* may give up waiting
WithExit(p) ==
    LET c == proc[p] IN
    /\ pc[p] = "with_exit"
    /\ pc[c] = "exited" \/ pending[p] = "KeyboardInterrupt"
    /\ reaped' = [reaped EXCEPT ![c] = (pc[c] = "exited")]
    /\ pc' = [pc EXCEPT ![p] = "kill"]
    /\ UNCHANGED <<env, parent, argv, args, cal, wrk, process, proc, launched,
                   pending, killed, io, fin>>

\* try: proc.kill() except OSError: pass
Kill(p) ==
    LET c == proc[p] IN
    /\ pc[p] = "kill"
    /\ IF pc[c] # "exited"
       THEN /\ killed' = [killed EXCEPT ![c] = TRUE]
            /\ pc' = [pc EXCEPT ![c] = "exited", ![p] = "wait"]
            /\ status' = [status EXCEPT ![c] = -9]
       ELSE /\ pc' = [pc EXCEPT ![p] = "wait"]
            /\ UNCHANGED <<killed, status>>
    /\ UNCHANGED <<env, parent, argv, args, cal, wrk, process, proc, launched,
                   pending, reaped, io, pinned, exc, returned>>

\* the handler without proc.wait()
Wait_NoWait(p) ==
    /\ pc[p] = "wait"
    /\ IF pending[p] = "KeyboardInterrupt"
       THEN Interrupted(p)
       ELSE Uncaught(p, args[p], Exc(pending[p]), << >>)
    /\ UNCHANGED <<env, parent, argv, args, cal, wrk, spw, json_file, pinned, returned>>

\* proc.wait(); raise
Wait(p) ==
    LET c == proc[p] IN
    /\ pc[p] = "wait"
    /\ pc[c] = "exited"
    /\ reaped' = [reaped EXCEPT ![c] = TRUE]
    /\ IF pending[p] = "KeyboardInterrupt"
       THEN Interrupted(p)
       ELSE Uncaught(p, args[p], Exc(pending[p]), << >>)
    /\ UNCHANGED <<env, parent, argv, args, cal, wrk, process, proc, launched,
                   pending, killed, json_file, pinned, returned>>

\* ------------------------------------------------------ the programs
\* A scenario: the platform, the timed operation and the command line.
Plain ==
    [PY3 |-> TRUE, sched |-> TRUE, psutil |-> FALSE, isolated |-> {},
     func |-> [kind |-> "linear", k |-> 3, d |-> 3, cold |-> 0],
     prepare |-> FALSE,
     processes |-> 1, samples |-> 1, warmups |-> 0, loops |-> 10,
     min_time |-> 100, max_time |-> 1000, verbose |-> 0, json |-> FALSE,
     json_file |-> FALSE, raw |-> FALSE, metadata |-> FALSE,
     affinity |-> << >>]

\* every shape of an orchestration, with and without calibration, on both
\* Pythons, for every destination of the structured result
Shapes ==
    {[Plain EXCEPT !.processes = x[1], !.samples = x[2], !.warmups = x[3],
                   !.loops = x[4], !.raw = x[5], !.PY3 = x[6], !.json = x[7],
                   !.json_file = x[8]] :
        x \in (1 .. MaxProcesses) \X (1 .. MaxSamples) \X (0 .. MaxWarmups)
              \X {0, 10} \X BOOLEAN \X BOOLEAN \X BOOLEAN \X BOOLEAN}

\* the same shapes when the first call of a process may take longer
Colds ==
    {[Plain EXCEPT !.processes = x[1], !.samples = x[2], !.warmups = x[3],
                   !.loops = x[4], !.raw = x[5], !.func.cold = 5] :
        x \in (1 .. MaxProcesses) \X (1 .. MaxSamples) \X (0 .. MaxWarmups)
              \X {0, 10} \X BOOLEAN}

\* every way of reporting
Reports ==
    {[Plain EXCEPT !.processes = MaxProcesses, !.samples = MaxSamples,
                   !.warmups = MaxWarmups,
                   !.verbose = x[1], !.json = x[2], !.json_file = x[3],
                   !.metadata = x[4], !.raw = x[5], !.prepare = x[6]] :
        x \in (0 .. 2) \X BOOLEAN \X BOOLEAN \X BOOLEAN \X BOOLEAN \X BOOLEAN}

\* every platform, with and without --affinity
Platforms ==
    {[Plain EXCEPT !.sched = x[1][1], !.psutil = x[1][2], !.isolated = x[2],
                   !.affinity = x[3], !.verbose = x[4], !.json = x[5],
                   !.raw = x[6]] :
        x \in {<<TRUE, FALSE>>, <<FALSE, TRUE>>, <<FALSE, FALSE>>}
              \X {{}, {0, 1}} \X {<< >>, <<1>>} \X {0, 1} \X BOOLEAN \X BOOLEAN}

\* timed operations that are stable, or not, in either check: 10 loops of
\* 1.5 ns, 150 ns or 150 us, every call as long as the one before or
\* longer by 3 or 10 loops
Verdicts ==
    {[Plain EXCEPT !.processes = 2, !.samples = 2,
                   !.func = [kind |-> "linear", k |-> x[1], d |-> x[2] * x[1],
                             cold |-> 0],
                   !.json = x[3], !.verbose = x[4]] :
        x \in {3, 300, 300000} \X {0, 3, 10} \X BOOLEAN \X {0, 2}}

Scenarios == Shapes \cup Colds \cup Reports \cup Platforms \cup Verdicts

\* the program starts in scenario s
StartIn(s) ==
    /\ PY3 = s.PY3
    /\ has_sched_setaffinity = s.sched
    /\ psutil_has_cpu_affinity = s.psutil
    /\ isolated_cpus = s.isolated
    /\ sample_func = s.func
    /\ prepare_subprocess_args = s.prepare
    /\ Start(CommandLine(s))

Init == \E s \in Scenarios : StartIn(s)

Next ==
    \E p \in Procs :
        \/ Main(p)
        \/ CpuAffinity(p)
        \/ CalibrateSampleFunc(p)
        \/ MainBenchmark(p)
        \/ CollectMetadata(p)
        \/ WorkerSample(p)
        \/ WorkerAddRun(p)
        \/ TimedOpRaises(p)
        \/ Interrupt(p)
        \/ SpawnWorker(p)
        \/ Communicate(p)
        \/ SpawnWorkersDone(p)
        \/ CommunicateRaises(p)
        \/ WithExit(p)
        \/ Kill(p)
        \/ Wait(p)

Spec == Init /\ [][Next]_vars

\* ------------------------------------------- calibration on its own
\* _calibrate_sample_func for every window and many timed operations: the
\* program is run with --raw --loops 0 up to the end of the calibration
MinTimes == {2, 10, 55, 2000000000}
MaxTimes == {2, 9, 50, 1000, 2000000000}

Calibrations ==
    {[Plain EXCEPT !.raw = TRUE, !.loops = 0, !.min_time = x[1],
                   !.max_time = x[2], !.func = x[3], !.verbose = x[4]] :
        x \in MinTimes \X MaxTimes
              \X {[kind |-> "linear", k |-> 1, d |-> 0, cold |-> 0],
                  [kind |-> "linear", k |-> 2, d |-> 0, cold |-> 0],
                  [kind |-> "any", k |-> 0, d |-> 0, cold |-> 0]}
              \X {0, 2}}

CalInit == \E s \in Calibrations : StartIn(s)

CalNext ==
    \E p \in Procs :
        \/ Main(p)
        \/ CpuAffinity(p)
        \/ CalibrateSampleFunc(p)

CalSpec == CalInit /\ [][CalNext]_vars

\* ------------------------------ _warn_if_bench_unstable on its own
\* _warn_if_bench_unstable(bench, verbose, file) called on a Benchmark
\* that is given: a program such as one that shows a stored result calls
\* it with file = its stream.  (number of runs, samples of a run)
Layouts == {<<1, 1>>, <<1, 2>>, <<2, 2>>}

\* the samples of a Benchmark are drawn from one of these sets, in ticks:
\* around the thresholds of the ratio, and around 1e-6 s and 1e-3 s
Palettes == {{0, 30, 40, 50}, {1998, 2000}, {2000, 3000},
             {1999000, 2000000}, {2000000, 3000000}}

Benchmarks ==
    {[loops |-> 1, warmups |-> w, runs |-> << >>, metadata |-> << >>] :
        w \in {0, 1}}
    \cup
    UNION {UNION {UNION {
        {[loops |-> 1, warmups |-> w, runs |-> r, metadata |-> << >>] :
            r \in [1 .. l[1] -> [1 .. (w + l[2]) -> V]]} :
        l \in Layouts} : w \in {0, 1}} : V \in Palettes}

\* a call that says nothing about a Benchmark without a run
WarnIfBenchUnstableCall_Silent(p) ==
    /\ pc[p] = "warn"
    /\ Exit(p, args[p], 0, NoExc,
            IF Len(bench[p].runs) = 0 THEN << >>
            ELSE WarnIfBenchUnstable(bench[p], args[p].verbose))
    /\ UNCHANGED <<env, parent, argv, args, cal, wrk, spw, json_file, pinned, returned>>

\* the call raises ValueError when the Benchmark has no run, and prints
\* what it has to say otherwise
WarnIfBenchUnstableCall(p) ==
    /\ pc[p] = "warn"
    /\ IF Len(bench[p].runs) = 0
       THEN Uncaught(p, args[p], Exc("ValueError"), << >>)
       ELSE Exit(p, args[p], 0, NoExc,
                 WarnIfBenchUnstable(bench[p], args[p].verbose))
    /\ UNCHANGED <<env, parent, argv, args, cal, wrk, spw, json_file, pinned, returned>>

ShowInit ==
    \E b \in Benchmarks : \E v \in {0, 2} : \E j \in BOOLEAN :
        /\ PY3 = Plain.PY3
        /\ has_sched_setaffinity = Plain.sched
        /\ psutil_has_cpu_affinity = Plain.psutil
        /\ isolated_cpus = Plain.isolated
        /\ sample_func = Plain.func
        /\ prepare_subprocess_args = Plain.prepare
        /\ pc = [p \in Procs |-> IF p = 0 THEN "warn" ELSE "none"]
        /\ parent = [p \in Procs |-> 0]
        /\ argv = [p \in Procs |-> << >>]
        /\ args = [p \in Procs |-> IF p = 0
                                   THEN [NoArgs EXCEPT !.verbose = v, !.json = j]
                                   ELSE NoArgs]
        /\ index = [p \in Procs |-> 0]
        /\ calls = [p \in Procs |-> << >>]
        /\ bench = [p \in Procs |-> IF p = 0 THEN b ELSE NoBench]
        /\ samples = [p \in Procs |-> << >>]
        /\ process = [p \in Procs |-> 0]
        /\ proc = [p \in Procs |-> 0]
        /\ launched = [p \in Procs |-> << >>]
        /\ pending = [p \in Procs |-> ""]
        /\ killed = [p \in Procs |-> FALSE]
        /\ reaped = [p \in Procs |-> FALSE]
        /\ stdout = [p \in Procs |-> << >>]
        /\ stderr = [p \in Procs |-> << >>]
        /\ json_file = [p \in Procs |-> << >>]
        /\ pinned = [p \in Procs |-> {}]
        /\ status = [p \in Procs |-> 0]
        /\ exc = [p \in Procs |-> NoExc]
        /\ returned = [p \in Procs |-> FALSE]

ShowNext == \E p \in Procs : WarnIfBenchUnstableCall(p)

ShowSpec == ShowInit /\ [][ShowNext]_vars

\* =================================================================
\* Properties
\* =================================================================
\* --loops as the command line of the process gives it
ConfiguredLoops(p) == LastVal(argv[p], "--loops", DefaultLoops)

ByCalibrate(c) == c.by = "calibrate"
ByWorker(c) == c.by = "worker"
CalibrationCalls(p) == SelectSeq(calls[p], ByCalibrate)
WorkerCalls(p) == SelectSeq(calls[p], ByWorker)

\* the calibration of process p has returned
Calibrated(p) ==
    /\ ConfiguredLoops(p) = 0
    /\ pc[p] = "bench" \/ bench[p] # NoBench

IsJson(x) == x.kind = "json"

\* the serialized Benchmarks that process p wrote to its structured-output
\* destinations
Dumped(p) == SelectSeq(stdout[p], IsJson) \o json_file[p]

\* the run that worker c returned on its standard output
ReturnedRun(c, run) ==
    \E j \in 1 .. Len(stdout[c]) :
        IsJson(stdout[c][j]) /\ stdout[c][j].bench.runs = <<run>>

\* process p printed its summary line
Reported(p) ==
    \/ \E j \in 1 .. Len(stdout[p]) : stdout[p][j] = Text("Median +- std dev")
    \/ \E j \in 1 .. Len(stderr[p]) : stderr[p][j] = Text("Median +- std dev")

Alive(c) == pc[c] \notin {"none", "exited"}

IsSuffix(t, u) ==
    Len(t) <= Len(u) /\ SubSeq(u, Len(u) - Len(t) + 1, Len(u)) = t

\* C1: in spawning mode, when _spawn_workers has completed with
\* processes = P, the aggregate holds exactly P runs, run i is the run that
\* the i-th spawned child returned, and every child was launched with
\* --loops equal to the loops of the aggregate.
C1_AggregateAppend ==
    \A p \in Procs :
        (returned[p] /\ ~args[p].raw) =>
            /\ Len(bench[p].runs) = args[p].processes
            /\ Len(launched[p]) = args[p].processes
            /\ \A i \in 1 .. args[p].processes :
                 LET c == launched[p][i] IN
                 /\ ReturnedRun(c, bench[p].runs[i])
                 /\ HasOpt(argv[c], "--loops")
                 /\ LastVal(argv[c], "--loops", 0) = bench[p].loops

C1_Witness ==
    \E p \in Procs :
        /\ returned[p] /\ ~args[p].raw
        /\ args[p].processes >= 2
        /\ bench[p].runs[1] # bench[p].runs[2]

\* the k-th child of p ended with a non-zero status and
\* _bench_from_subprocess of p saw it
SpawnFailure(p, k) ==
    /\ k \in 1 .. Len(launched[p])
    /\ reaped[launched[p][k]]
    /\ status[launched[p][k]] # 0
    /\ pending[p] = ""

\* C2: when the k-th child exits with a non-zero status c, its stdout and
\* stderr are echoed, the error names the command and c, no run is added
\* for it, no later child is spawned, and the aggregate, with its k-1
\* runs, is neither returned nor reported.
C2_SpawnFailureAborts ==
    \A p \in Procs : \A k \in 1 .. Len(launched[p]) :
        SpawnFailure(p, k) =>
            LET c == launched[p][k] IN
            /\ pc[p] = "exited"
            /\ exc[p] = [type |-> "RuntimeError", cmd |-> argv[c][1].opt,
                         code |-> status[c]]
            /\ IsSuffix(stdout[c], stdout[p])
            /\ IsSuffix(stderr[c] \o <<Text("Traceback")>>, stderr[p])
            /\ Len(bench[p].runs) = k - 1
            /\ Len(launched[p]) = k
            /\ ~returned[p]
            /\ ~Reported(p)
            /\ Dumped(p) = << >>

C2_Witness ==
    \E p \in Procs :
        /\ SpawnFailure(p, 2)
        /\ status[launched[p][2]] = 2
        /\ Len(bench[p].runs) = 1
        /\ exc[p].code = 2

InSubprocess == {"communicate", "with_exit", "kill", "wait"}

\* C3: whenever the orchestrator is outside _bench_from_subprocess, or has
\* exited, every child it spawned has ended and has been reaped; so an
\* exception raised while it waited has propagated only after that.
C3_NoOrphan ==
    \A p \in Procs :
        pc[p] \notin InSubprocess =>
            \A i \in 1 .. Len(launched[p]) :
                ~Alive(launched[p][i]) /\ reaped[launched[p][i]]

C3_Witness ==
    \E p \in Procs :
        /\ pc[p] = "exited"
        /\ pending[p] = "KeyboardInterrupt"
        /\ killed[proc[p]]
        /\ reaped[proc[p]]

\* C4: at most one child of a process is alive, and a child is launched
\* only after the one before it has ended, its output has been parsed and
\* its run has been appended to the aggregate.
C4_OneAtATime ==
    \A p \in Procs :
        /\ Cardinality({i \in 1 .. Len(launched[p]) : Alive(launched[p][i])}) <= 1
        /\ \A i \in 1 .. (Len(launched[p]) - 1) :
             /\ ~Alive(launched[p][i])
             /\ reaped[launched[p][i]]
             /\ Len(bench[p].runs) >= i
             /\ ReturnedRun(launched[p][i], bench[p].runs[i])

C4_Witness ==
    \E p \in Procs :
        /\ Len(launched[p]) >= 2
        /\ Alive(launched[p][2])
        /\ Len(bench[p].runs) = 1

\* dt >= 0.9 * min_time, for whole numbers of ticks
AtLeast90(dt, min_time) ==
    LET a == min_time \div 10
        b == min_time % 10
    IN  IF dt - 9 * a >= 9 THEN TRUE
        ELSE IF dt < 9 * a THEN FALSE
        ELSE 10 * (dt - 9 * a) >= 9 * b

\* the candidate stops the search of process p
Stops(p, dt) == dt >= args[p].max_time \/ AtLeast90(dt, args[p].min_time)

\* C5: the candidates are 10^0, 10^1, ... in increasing order, one call
\* each; the search stops at the first candidate with dt >= maxTime or
\* dt >= 0.9 * minTime; with dt >= maxTime the previous candidate is
\* returned (10^0 for the first), also when both hold; otherwise the
\* candidate itself.
C5_CalibrationSearch ==
    \A p \in Procs :
        LET cs == CalibrationCalls(p)
            n == Len(cs)
        IN  /\ \A i \in 1 .. n : cs[i].loops = Pow10(i - 1)
            /\ \A i \in 1 .. (n - 1) : ~Stops(p, cs[i].dt)
            /\ Calibrated(p) =>
                 /\ n >= 1
                 /\ n < 10 => Stops(p, cs[n].dt)
                 /\ cs[n].dt >= args[p].max_time =>
                      args[p].loops = IF n = 1 THEN 1 ELSE cs[n - 1].loops
                 /\ (cs[n].dt < args[p].max_time
                     /\ AtLeast90(cs[n].dt, args[p].min_time)) =>
                      args[p].loops = cs[n].loops

C5_Witness ==
    \E p \in Procs :
        LET cs == CalibrationCalls(p)
            n == Len(cs)
        IN  /\ Calibrated(p)
            /\ n >= 2
            /\ cs[n].dt >= args[p].max_time
            /\ AtLeast90(cs[n].dt, args[p].min_time)
            /\ args[p].loops = cs[n - 1].loops

\* the timed operation takes k ticks per loop, k > 0
Linear == sample_func.kind = "linear" /\ sample_func.d = 0 /\ sample_func.k > 0

\* the indexes i of 0..9 with 10^i * k >= 0.9 * minTime
ReachMin(p) ==
    {i \in 0 .. 9 : AtLeast90(Pow10(i) * sample_func.k, args[p].min_time)}

\* the indexes i of 0..9 with 10^i * k >= 0.9 * minTime or >= maxTime
ReachEither(p) ==
    {i \in 0 .. 9 : Stops(p, Pow10(i) * sample_func.k)}

\* C6, as the specification states it: for timedOp(loops) = loops * k the
\* result is the smallest 10^i with 10^i * k >= 0.9 * minTime, unless
\* 10^i * k >= maxTime, and then it is 10^(i-1).  (Stated for the i of
\* 0..9; with no such i the smallest 10^i is above 10^9.)
C6_Original ==
    \A p \in Procs :
        (Linear /\ Calibrated(p)) =>
            IF ReachMin(p) = {} THEN args[p].loops >= Pow10(9)
            ELSE LET i == Min(ReachMin(p)) IN
                 IF Pow10(i) * sample_func.k >= args[p].max_time
                 THEN i >= 1 /\ args[p].loops = Pow10(i - 1)
                 ELSE args[p].loops = Pow10(i)

\* C6, amended: with i the smallest index of 0..9 such that 10^i * k >=
\* 0.9 * minTime or 10^i * k >= maxTime, the result is 10^i, unless
\* 10^i * k >= maxTime, and then it is 10^max(i-1, 0); with no such index
\* the result is 10^9.
C6_LinearCalibration ==
    \A p \in Procs :
        (Linear /\ Calibrated(p)) =>
            IF ReachEither(p) = {} THEN args[p].loops = Pow10(9)
            ELSE LET i == Min(ReachEither(p)) IN
                 IF Pow10(i) * sample_func.k >= args[p].max_time
                 THEN args[p].loops = Pow10(Max(i - 1, 0))
                 ELSE args[p].loops = Pow10(i)

\* the first candidate of a linear operation overshoots maxTime
C6_Witness ==
    \E p \in Procs :
        /\ Linear /\ Calibrated(p)
        /\ sample_func.k >= args[p].max_time
        /\ args[p].loops = 1

\* C7: a calibration makes at most 10 calls and returns one of 10^0 ..
\* 10^9; when no candidate reaches 0.9 * minTime or maxTime, it makes the
\* 10 calls and returns 10^9.
C7_CalibrationBounded ==
    \A p \in Procs :
        LET cs == CalibrationCalls(p)
            n == Len(cs)
        IN  /\ n <= 10
            /\ Calibrated(p) =>
                 /\ args[p].loops \in {Pow10(i) : i \in 0 .. 9}
                 /\ (\A i \in 1 .. n : ~Stops(p, cs[i].dt)) =>
                      n = 10 /\ args[p].loops = Pow10(9)

C7_Witness ==
    \E p \in Procs :
        LET cs == CalibrationCalls(p) IN
        /\ Calibrated(p)
        /\ Len(cs) = 10
        /\ \A i \in 1 .. 10 : ~Stops(p, cs[i].dt)
        /\ args[p].loops = Pow10(9)

IsSampleLine(x) == x = Text("Warmup") \/ x = Text("Raw sample")

\* the per-sample lines that process p printed
SampleLines(p) ==
    SelectSeq(IF args[p].json THEN stderr[p] ELSE stdout[p], IsSampleLine)

\* C8: one execution of _worker makes warmups + samples calls
\* timedOp(loops), one after the other; the run holds their (rounded)
\* results in call order, the warmups first; the run is the only one of
\* the Benchmark and is appended after the last call has returned.
C8_RunShape ==
    \A p \in Procs :
        LET a == args[p]
            wc == WorkerCalls(p)
        IN  /\ Len(wc) <= a.warmups + a.samples
            /\ \A i \in 1 .. Len(wc) : wc[i].loops = bench[p].loops
            /\ samples[p] = [i \in 1 .. Len(wc) |-> Round9(wc[i].dt)]
            /\ (a.raw /\ a.verbose > 0) =>
                 SampleLines(p) = [i \in 1 .. Len(wc) |->
                                      Text(IF i <= a.warmups THEN "Warmup"
                                           ELSE "Raw sample")]
            /\ a.raw =>
                 IF returned[p]
                 THEN /\ Len(wc) = a.warmups + a.samples
                      /\ bench[p].runs = <<samples[p]>>
                 ELSE bench[p].runs = << >>

C8_Witness ==
    \E p \in Procs :
        /\ args[p].raw /\ returned[p]
        /\ args[p].warmups >= 1 /\ args[p].samples >= 2
        /\ args[p].verbose > 0
        /\ Len(bench[p].runs[1]) = 3
        /\ bench[p].runs[1][1] # bench[p].runs[1][2]
        /\ bench[p].runs[1][2] # bench[p].runs[1][3]

BeforeBenchmark == {"none", "main", "cpu_affinity", "calibrate"}

\* in every state: only a process whose configured loops is 0 calibrates,
\* once, and no worker child does; no child is spawned and no run is
\* collected before the calibration has returned; every worker command
\* carries the loop count of its parent, which is >= 1
C9_State ==
    \A p \in Procs :
        LET cs == CalibrationCalls(p) IN
        /\ cs # << >> => (ConfiguredLoops(p) = 0 /\ p = 0)
        /\ Cardinality({i \in 1 .. Len(cs) : cs[i].loops = 1}) <= 1
        /\ pc[p] \in BeforeBenchmark =>
             (launched[p] = << >> /\ bench[p] = NoBench)
        /\ \A i \in 1 .. Len(launched[p]) :
             LET c == launched[p][i] IN
             /\ HasOpt(argv[c], "--loops")
             /\ ConfiguredLoops(c) = args[p].loops
             /\ ConfiguredLoops(c) >= 1
             /\ ConfiguredLoops(c) = bench[p].loops

\* in every step: once the calibration is over, the loop count stays
C9_Step ==
    \A p \in Procs :
        pc[p] \notin BeforeBenchmark => args'[p].loops = args[p].loops

\* C9: calibration runs at most once, in the orchestrating process, only
\* when the configured loops is 0, before any worker is spawned and any run
\* collected; its loop count never changes afterwards and every worker
\* command carries it, >= 1, so that no worker calibrates.
C9_CalibrateOnce == [] C9_State /\ [][C9_Step]_vars

C9_Witness ==
    \E p \in Procs :
        /\ ConfiguredLoops(p) = 0
        /\ Len(CalibrationCalls(p)) = 3
        /\ Len(launched[p]) >= 2
        /\ ConfiguredLoops(launched[p][2]) = 100
        /\ pc[launched[p][2]] = "exited" /\ returned[launched[p][2]]

\* the Benchmark holds every run of the orchestration of process p
Complete(p, b) ==
    /\ Len(b.runs) = IF args[p].raw THEN 1 ELSE args[p].processes
    /\ \A i \in 1 .. Len(b.runs) :
         Len(b.runs[i]) = args[p].warmups + args[p].samples

\* process p was cancelled or has failed
Aborted(p) == pending[p] # "" \/ exc[p] # NoExc \/ status[p] # 0

\* C10: a Benchmark is serialized only when it holds every run of the
\* orchestration; a process that was cancelled or whose orchestration
\* failed has written nothing to its structured-output destination.
C10_NoPartialBenchmark ==
    \A p \in Procs :
        /\ \A j \in 1 .. Len(Dumped(p)) :
             /\ Dumped(p)[j].bench.runs = bench[p].runs
             /\ Complete(p, Dumped(p)[j].bench)
        /\ Aborted(p) => Dumped(p) = << >>

C10_Witness ==
    \E p \in Procs :
        /\ ~args[p].raw /\ args[p].json
        /\ pending[p] = "KeyboardInterrupt" /\ pc[p] = "exited"
        /\ Len(bench[p].runs) >= 1
        /\ Dumped(p) = << >>

\* the exit that except KeyboardInterrupt makes: sys.exit(1)
SysExit1 == [type |-> "SystemExit", cmd |-> "", code |-> 1]

\* a KeyboardInterrupt reached process p
WasInterrupted(p) ==
    \/ exc[p].type = "KeyboardInterrupt"
    \/ pending[p] = "KeyboardInterrupt" /\ pc[p] = "exited"
    \/ exc[p] = SysExit1 /\ stderr[p] # << >>
                         /\ stderr[p][Len(stderr[p])] = Text("Interrupted: exit")

\* C11: a process that a KeyboardInterrupt reached, at whatever point of
\* _main, has ended with exit status 1 through sys.exit(1), its last line
\* on stderr is the short diagnostic, and it printed no traceback.
C11_InterruptCaught ==
    \A p \in Procs :
        WasInterrupted(p) =>
            /\ pc[p] = "exited"
            /\ status[p] = 1
            /\ exc[p] = SysExit1
            /\ stderr[p][Len(stderr[p])] = Text("Interrupted: exit")
            /\ \A j \in 1 .. Len(stderr[p]) : stderr[p][j] # Text("Traceback")

\* --affinity was given to process p and the platform cannot pin
ExplicitUnavailable(p) ==
    /\ HasOpt(argv[p], "--affinity")
    /\ LastVal(argv[p], "--affinity", << >>) # << >>
    /\ ~has_sched_setaffinity /\ ~psutil_has_cpu_affinity

\* C12: a process given --affinity on a platform without a pinning
\* mechanism, once _cpu_affinity has run, has printed the error and has
\* ended through sys.exit(1); it has calibrated nothing, spawned nothing
\* and collected nothing.
C12_AffinityExit ==
    \A p \in Procs :
        (ExplicitUnavailable(p) /\ pc[p] \notin {"none", "main", "cpu_affinity"}
         /\ exc[p].type # "KeyboardInterrupt") =>
            /\ pc[p] = "exited"
            /\ status[p] = 1
            /\ exc[p] = SysExit1
            /\ \E j \in 1 .. Len(stderr[p]) :
                 stderr[p][j] = Text("ERROR: CPU affinity not available.")
            /\ calls[p] = << >>
            /\ launched[p] = << >>
            /\ bench[p] = NoBench

\* the platform can pin a process
Available == has_sched_setaffinity \/ psutil_has_cpu_affinity

\* the CPUs that a CPU list names
Cpus(list) == {list[i] : i \in 1 .. Len(list)}

\* what process p printed on the stream of its human-readable text
Human(p) == IF args[p].json THEN stderr[p] ELSE stdout[p]

\* in every step: _cpu_affinity of a process without --affinity, when no
\* interrupt and no kill ends the process meanwhile, does not end it; without isolated CPUs it changes and prints nothing;
\* with isolated CPUs and no mechanism it prints the warning and neither
\* pins nor sets args.affinity; with both it pins to the isolated CPUs and
\* sets args.affinity to them
C13_Step ==
    \A p \in Procs :
        (/\ pc[p] = "cpu_affinity" /\ pc'[p] # "cpu_affinity"
         /\ ~HasOpt(argv[p], "--affinity")
         /\ exc'[p].type # "KeyboardInterrupt" /\ ~killed'[p]) =>
            /\ pc'[p] # "exited"
            /\ status'[p] = 0 /\ exc'[p] = NoExc
            /\ IF isolated_cpus = {}
               THEN /\ args'[p] = args[p] /\ pinned'[p] = {}
                    /\ stdout'[p] = stdout[p] /\ stderr'[p] = stderr[p]
               ELSE IF ~Available
               THEN /\ args'[p] = args[p] /\ args'[p].affinity = << >>
                    /\ pinned'[p] = {}
                    /\ Len(Human(p)') = Len(Human(p)) + 2
                    /\ Human(p)'[Len(Human(p)) + 1] =
                           Text("WARNING: unable to pin worker processes")
               ELSE /\ pinned'[p] = isolated_cpus
                    /\ Cpus(args'[p].affinity) = isolated_cpus

\* in every state: the worker commands of a process without --affinity
\* carry --affinity, with the isolated CPUs, exactly when the process
\* pinned itself to them
C13_State ==
    \A p \in Procs : \A i \in 1 .. Len(launched[p]) :
        LET c == launched[p][i] IN
        ~HasOpt(argv[p], "--affinity") =>
            IF isolated_cpus # {} /\ Available
            THEN /\ HasOpt(argv[c], "--affinity")
                 /\ Cpus(LastVal(argv[c], "--affinity", << >>)) = isolated_cpus
                 /\ pinned[p] = isolated_cpus
            ELSE ~HasOpt(argv[c], "--affinity") /\ pinned[p] = {}

\* C13: without --affinity, _cpu_affinity never ends the process: no
\* isolated CPUs, silent return; isolated CPUs and no mechanism, a warning
\* and no pinning, args.affinity unset; isolated CPUs and a mechanism, the
\* process is pinned to that set, which every worker command carries.
C13_AutoAffinity == [] C13_State /\ [][C13_Step]_vars

C13_Witness ==
    \E p \in Procs :
        /\ ~HasOpt(argv[p], "--affinity")
        /\ isolated_cpus = {0, 1} /\ ~has_sched_setaffinity
        /\ pinned[p] = {0, 1}
        /\ Len(launched[p]) = 1
        /\ LastVal(argv[launched[p][1]], "--affinity", << >>) = <<0, 1>>
        /\ pinned[launched[p][1]] = {0, 1}
        /\ returned[p]

\* ---- the stability assessment, stated on the samples themselves
\* the places (run, position) of the measurement samples of Benchmark b,
\* and of all its raw samples
MeasuredAt(b) ==
    {<<i, j>> \in (1 .. Len(b.runs)) \X (1 .. 3) :
        j > b.warmups /\ j <= Len(b.runs[i])}
RawAt(b) ==
    {<<i, j>> \in (1 .. Len(b.runs)) \X (1 .. 3) : j <= Len(b.runs[i])}

\* a unit that divides every sample of b
UnitOf(b) ==
    LET divides(u) == \A x \in RawAt(b) : b.runs[x[1]][x[2]] % u = 0
    IN  IF divides(1000000) THEN 1000000
        ELSE IF divides(1000) THEN 1000
        ELSE IF divides(10) THEN 10
        ELSE IF divides(2) THEN 2
        ELSE 1

\* the sample at place x, in that unit
At(b, x) == b.runs[x[1]][x[2]] \div UnitOf(b)

RECURSIVE SumOver(_, _, _)
SumOver(b, S, square) ==
    IF S = {} THEN 0
    ELSE LET x == CHOOSE y \in S : TRUE
         IN  (IF square THEN At(b, x) * At(b, x) ELSE At(b, x))
             + SumOver(b, S \ {x}, square)

\* the k-th smallest of the measurement samples
Kth(b, k) ==
    LET S == MeasuredAt(b)
        v == CHOOSE y \in {At(b, x) : x \in S} :
                 /\ Cardinality({x \in S : At(b, x) < y}) < k
                 /\ Cardinality({x \in S : At(b, x) <= y}) >= k
    IN  v

\* twice the median of the measurement samples
TwiceMedian(b) ==
    LET n == Cardinality(MeasuredAt(b))
    IN  Kth(b, (n + 1) \div 2) + Kth(b, n \div 2 + 1)

\* (stdev / median)^2 > num / den, for the sample standard deviation:
\* n (n - 1) var = n * sum of squares - square of the sum
RatioAbove(b, num, den) ==
    LET S == MeasuredAt(b)
        n == Cardinality(S)
        nnvar == n * SumOver(b, S, TRUE) - SumOver(b, S, FALSE) * SumOver(b, S, FALSE)
    IN  4 * den * nnvar > num * n * (n - 1) * TwiceMedian(b) * TwiceMedian(b)

\* the verdict of the dispersion check
Dispersion(b) ==
    IF Cardinality(MeasuredAt(b)) <= 1 \/ TwiceMedian(b) = 0 THEN "skipped"
    ELSE IF RatioAbove(b, 4, 100) THEN "error"          \* ratio > 0.20
    ELSE IF RatioAbove(b, 1, 100) THEN "warn"           \* ratio > 0.10
    ELSE "stable"

\* process p printed the line t, on either stream
Said(p, t) ==
    \/ \E j \in 1 .. Len(stdout[p]) : stdout[p][j] = Text(t)
    \/ \E j \in 1 .. Len(stderr[p]) : stderr[p][j] = Text(t)

\* on the stream of its human-readable text, process p printed line u
\* right after line t
SaidThen(p, t, u) ==
    \E j \in 1 .. (Len(Human(p)) - 1) :
        Human(p)[j] = Text(t) /\ Human(p)[j + 1] = Text(u)

VeryUnstable == "ERROR: the benchmark is very unstable"
SeemsUnstable == "WARNING: the benchmark seems unstable"
MoreRuns == "Try to rerun the benchmark with more runs"

\* C14: after _warn_if_bench_unstable on a Benchmark with a run: the
\* "very unstable" error is printed exactly when stdev / median of the
\* measurement samples is above 0.20, the "seems unstable" warning exactly
\* when it is above 0.10 and not above 0.20, each followed by the guidance
\* line, and nothing of the dispersion check is printed when the median
\* is 0 or there is one measurement sample.
C14_Dispersion ==
    \A p \in Procs :
        (pc[p] = "exited" /\ argv[p] = << >> /\ bench[p].runs # << >>) =>
            LET v == Dispersion(bench[p]) IN
            /\ Said(p, VeryUnstable) <=> v = "error"
            /\ Said(p, SeemsUnstable) <=> v = "warn"
            /\ Said(p, MoreRuns) <=> v \in {"error", "warn"}
            /\ v = "error" => SaidThen(p, VeryUnstable, MoreRuns)
            /\ v = "warn" => SaidThen(p, SeemsUnstable, MoreRuns)
            /\ Said(p, "Standard deviation / median") <=>
                   (v = "stable" /\ args[p].verbose > 1)

\* the warmup of the run would have made the benchmark unstable
C14_Witness ==
    \E p \in Procs :
        /\ pc[p] = "exited" /\ argv[p] = << >>
        /\ bench[p].warmups = 1
        /\ bench[p].runs = <<<<0, 50, 50>>, <<30, 50, 40>>>>
        /\ Dispersion(bench[p]) = "stable"
        /\ ~Said(p, SeemsUnstable) /\ ~Said(p, VeryUnstable)

\* the shortest raw sample of Benchmark b, warmups included, in ticks
ShortestOf(b) ==
    CHOOSE m \in {b.runs[x[1]][x[2]] : x \in RawAt(b)} :
        \A x \in RawAt(b) : m <= b.runs[x[1]][x[2]]

\* 1e-6 s and 1e-3 s, in ticks
Microsecond == 1000 * TicksPerNs
Millisecond == 1000 * Microsecond

\* the verdict of the minimum-duration check
MinimumDuration(b) ==
    IF ShortestOf(b) < Microsecond THEN "error"
    ELSE IF ShortestOf(b) < Millisecond THEN "warn"
    ELSE "stable"

MayBeVeryUnstable == "ERROR: the benchmark may be very unstable"
MayBeUnstable == "WARNING: the benchmark may be unstable"
MoreLoops == "Try to rerun the benchmark with more loops"

\* C15: after _warn_if_bench_unstable on a Benchmark with a run: the "may
\* be very unstable" error is printed exactly when the shortest raw sample
\* of all runs, warmups included, is below 1e-6 s, the "may be unstable"
\* warning exactly when it is below 1e-3 s and not below 1e-6 s, either
\* with the guidance on loops, and neither otherwise; whatever the
\* dispersion check found, skipped or not.
C15_MinimumDuration ==
    \A p \in Procs :
        (pc[p] = "exited" /\ argv[p] = << >> /\ bench[p].runs # << >>) =>
            LET v == MinimumDuration(bench[p]) IN
            /\ Said(p, MayBeVeryUnstable) <=> v = "error"
            /\ Said(p, MayBeUnstable) <=> v = "warn"
            /\ Said(p, MoreLoops) <=> v \in {"error", "warn"}
            /\ Said(p, "Shortest raw sample") <=>
                   (v = "stable" /\ args[p].verbose > 1)

\* the dispersion check reports an error and the shortest sample is long
\* enough
C15_Witness ==
    \E p \in Procs :
        /\ pc[p] = "exited" /\ argv[p] = << >>
        /\ Dispersion(bench[p]) = "error"
        /\ MinimumDuration(bench[p]) = "stable"
        /\ Said(p, VeryUnstable)
        /\ ~Said(p, MayBeUnstable) /\ ~Said(p, MayBeVeryUnstable)

\* C16: _warn_if_bench_unstable on a Benchmark without a run raises the
\* no-run error (ValueError) and has printed nothing: no verdict, no
\* statistic, no other line; the call does not return normally.
C16_NoRun ==
    \A p \in Procs :
        (pc[p] = "exited" /\ argv[p] = << >> /\ bench[p].runs = << >>) =>
            /\ exc[p] = Exc("ValueError")
            /\ status[p] # 0
            /\ stdout[p] = << >>
            /\ stderr[p] = <<Text("Traceback")>>

C16_Witness ==
    \E p \in Procs :
        /\ pc[p] = "exited" /\ argv[p] = << >>
        /\ bench[p].runs = << >> /\ bench[p].warmups = 1
        /\ args[p].verbose = 2
        /\ exc[p].type = "ValueError"

\* process p printed one of the warnings or errors of the stability checks
Warned(p) ==
    \/ Said(p, VeryUnstable) \/ Said(p, SeemsUnstable)
    \/ Said(p, MayBeVeryUnstable) \/ Said(p, MayBeUnstable)

\* in every step: the report of _spawn_workers leaves the runs, the loops
\* and the warmups of the aggregate as they were, and its metadata but
\* for the duration that _spawn_workers records before the report
C17_Step ==
    \A p \in Procs :
        (pc[p] = "spawn" /\ returned'[p]) =>
            /\ bench'[p].runs = bench[p].runs
            /\ bench'[p].loops = bench[p].loops
            /\ bench'[p].warmups = bench[p].warmups
            /\ \A k \in DOMAIN bench[p].metadata :
                 k \in DOMAIN bench'[p].metadata
                 /\ bench'[p].metadata[k] = bench[p].metadata[k]
            /\ DOMAIN bench'[p].metadata \subseteq
                   DOMAIN bench[p].metadata \cup {"duration"}

\* in every state: a spawning process that has reported, whatever the
\* stability checks said, printed the summary line last, wrote the
\* structured result where it was asked for, and ended with status 0
C17_State ==
    \A p \in Procs :
        (returned[p] /\ ~args[p].raw) =>
            /\ pc[p] = "exited" /\ status[p] = 0 /\ exc[p] = NoExc
            /\ Human(p) # << >>
            /\ Human(p)[Len(Human(p))] = Text("Median +- std dev")
            /\ (args[p].json \/ args[p].json_file) =>
                   Dumped(p) = <<Json(bench[p])>>

\* C17: the verdicts of the stability assessment are advisory: they leave
\* the Benchmark as it was, the summary line is printed, the structured
\* result is written when asked for, and the exit status is 0 as it is for
\* a stable benchmark.
C17_Advisory == [] C17_State /\ [][C17_Step]_vars

\* both checks report an error, and the report is complete
C17_Witness ==
    \E p \in Procs :
        /\ returned[p] /\ ~args[p].raw /\ args[p].json
        /\ Said(p, VeryUnstable) /\ Said(p, MayBeVeryUnstable)
        /\ Said(p, "Median +- std dev")
        /\ Dumped(p) = <<Json(bench[p])>>
        /\ status[p] = 0

\* the serialized Benchmarks on the standard output of process p
OnStdout(p) == SelectSeq(stdout[p], IsJson)

\* C18: a process that completed has serialized its Benchmark exactly once
\* to every destination that was asked for: to its standard output with
\* --json, to the file with --json-file, to both with both; and to no
\* destination that was not asked for.
C18_EveryDestination ==
    \A p \in Procs :
        returned[p] =>
            /\ OnStdout(p) = IF args[p].json THEN <<Json(bench[p])>> ELSE << >>
            /\ json_file[p] = IF args[p].json_file THEN <<Json(bench[p])>>
                              ELSE << >>

\* the aggregate of process p has its duration
HasDuration(p) == "duration" \in DOMAIN bench[p].metadata

\* a child of process p failed and _bench_from_subprocess raised
ChildFailed(p) == exc[p].type = "RuntimeError"

\* C19, as the specification states it: whenever the worker loop has
\* ended, with all children completed or with one child failed, the
\* aggregate has its duration.
C19_Original ==
    \A p \in Procs :
        ((returned[p] /\ ~args[p].raw) \/ ChildFailed(p)) => HasDuration(p)

\* C19, amended: when the worker loop has ended with all children
\* completed, the aggregate has its duration, in minutes and seconds
\* exactly when it is 60 s or more, and the Benchmark that was serialized
\* has it too; when a child has failed, no duration is recorded.
C19_DurationRecorded ==
    \A p \in Procs :
        /\ (returned[p] /\ ~args[p].raw) =>
             /\ HasDuration(p)
             /\ LET t == bench[p].metadata["duration"] IN
                /\ t.secs \in 0 .. 59
                /\ t.text = "min sec" <=> 60 * t.mins + t.secs >= 60
                /\ t.text = "sec" <=> t.mins = 0
             /\ \A j \in 1 .. Len(Dumped(p)) :
                  /\ "duration" \in DOMAIN Dumped(p)[j].bench.metadata
                  /\ Dumped(p)[j].bench.metadata["duration"] =
                         bench[p].metadata["duration"]
        /\ ChildFailed(p) => ~HasDuration(p)

\* a run of exactly one minute, reported and serialized
C19_Witness ==
    \E p \in Procs :
        /\ returned[p] /\ ~args[p].raw /\ args[p].json
        /\ bench[p].metadata["duration"] =
               [text |-> "min sec", mins |-> 1, secs |-> 0]
        /\ Dumped(p) = <<Json(bench[p])>>

\* C20: a process run with --json writes nothing to its standard output
\* but the one serialized Benchmark: every line of text it prints goes to
\* its standard error; for a worker (--raw --json) and for a spawning
\* process with --json alike.
C20_StdoutClean ==
    \A p \in Procs :
        (pc[p] # "none" /\ args[p].json) =>
            /\ \A j \in 1 .. Len(stdout[p]) : IsJson(stdout[p][j])
            /\ Len(stdout[p]) <= 1

\* ------------------------------------------------------------- C21
\* the processes that exist besides the one the program started as
Children == {c \in Procs \ {0} : pc[c] # "none"}

\* the number of processes between process c and the first one
RECURSIVE Depth(_)
Depth(c) == IF c = 0 THEN 0 ELSE 1 + Depth(parent[c])

\* the command line of c carries what its parent has resolved
CarriesResolved(c) ==
    LET av == argv[c]
        a == args[parent[c]]
    IN  /\ HasOpt(av, "--raw")
        /\ HasOpt(av, "--json")
        /\ HasOpt(av, "--samples") /\ LastVal(av, "--samples", 0) = a.samples
        /\ HasOpt(av, "--warmups") /\ LastVal(av, "--warmups", 0) = a.warmups
        /\ HasOpt(av, "--loops") /\ LastVal(av, "--loops", 0) = a.loops
        /\ a.loops >= 1
        /\ HasOpt(av, "--affinity") <=> a.affinity # << >>
        /\ LastVal(av, "--affinity", << >>) = a.affinity

\* c is in the in-process branch of _main, or on its way to it
InProcess(c) ==
    /\ pc[c] \in {"main", "cpu_affinity", "bench", "metadata", "worker", "exited"}
    /\ ParseArgs(argv[c]).raw
    /\ args[c] # NoArgs => args[c].raw
    /\ launched[c] = << >>
    /\ process[c] = 0 /\ proc[c] = 0

\* c has produced one Run and nothing more, once it has ended well,
\* and no Run before
OneRun(c) ==
    /\ Len(bench[c].runs) <= 1
    /\ Len(bench[c].runs) = 1 <=> returned[c]
    /\ pc[c] = "exited" /\ status[c] = 0
         => /\ returned[c]
            /\ Len(OnStdout(c)) = 1
            /\ Len(OnStdout(c)[1].bench.runs) = 1
            /\ json_file[c] = << >>

\* C21: every worker command built by _spawn_worker contains --raw and
\* --json with the samples, warmups and loops its controller has
\* resolved, the loops being at least 1, and --affinity exactly when the
\* controller's args.affinity is set; so every worker takes the
\* in-process branch of _main, creates no process, and has produced
\* exactly one Run when it ends with status 0 (none before, never two);
\* every process is at depth at most one, the controller never has more
\* than `processes` children, and has exactly `processes` children, all
\* ended with status 0, when it returns its Benchmark
C21_WorkerTree ==
    /\ \A c \in Children :
          /\ parent[c] = 0
          /\ Depth(c) <= 1
          /\ CarriesResolved(c)
          /\ InProcess(c)
          /\ OneRun(c)
    /\ \A c \in Procs \ {0} : c \in Children <=> \E i \in 1 .. Len(launched[0]) : launched[0][i] = c
    /\ Cardinality(Children) = Len(launched[0])
    /\ pc[0] \notin {"none", "main"} => Len(launched[0]) <= args[0].processes
    /\ args[0].raw => Children = {}
    /\ returned[0] /\ ~args[0].raw
         => /\ Cardinality(Children) = args[0].processes
            /\ Len(bench[0].runs) = args[0].processes
            /\ \A c \in Children : pc[c] = "exited" /\ status[c] = 0

\* a controller that had to calibrate has returned after as many workers
\* as the model allows, each started with the calibrated loops and each
\* ended well
C21_Witness ==
    /\ returned[0]
    /\ ~args[0].raw
    /\ ConfiguredLoops(0) = 0
    /\ args[0].processes = MaxProcesses
    /\ Cardinality(Children) = MaxProcesses
    /\ \A c \in Children :
          /\ LastVal(argv[c], "--loops", 0) = args[0].loops
          /\ args[0].loops >= 1
          /\ returned[c]
          /\ calls[c] # << >>

====
